---- MODULE Spec2Model ----
(***************************************************************************)
(* Model of src/main.py (Barotrauma Submarine Stripper).                   *)
(*                                                                         *)
(* Strings are sequences of one-character strings, so that regular         *)
(* expression scans (\d+), lower-casing and splitting are computed the way *)
(* the code computes them.  An absent attribute (Python None) is the       *)
(* one-element sequence None, which is no character sequence of any input. *)
(***************************************************************************)
EXTENDS Integers, Sequences, FiniteSets, TLC

\* ------------------------------------------------------------------ bounds
MaxLen == 5
MaxItems == 2
EnqueueCap == 2
MaxFiles == 3
MaxUpgrades == 2

\* ------------------------------------------------------- string primitives
None == <<"None">>

Digits == {"0", "1", "2", "3", "4", "5", "6", "7", "8", "9"}

IsDigit(c) == c \in Digits

\* Python truthiness of an attribute value: None and "" are falsy
Truthy(v) == v # None /\ v # <<>>

\* index of the last character of the maximal digit run starting at i (\d+ is greedy)
RunEndOneChar(s, i) == i

RECURSIVE RunEnd(_, _)
RunEnd(s, i) ==
    IF i + 1 <= Len(s) /\ IsDigit(s[i + 1]) THEN RunEnd(s, i + 1) ELSE i

\* re.findall(r"\d+", s) scanning from position i
RECURSIVE FindAllDigits(_, _)
FindAllDigits(s, i) ==
    IF i > Len(s) THEN <<>>
    ELSE IF IsDigit(s[i])
         THEN LET j == RunEnd(s, i)
              IN  <<SubSeq(s, i, j)>> \o FindAllDigits(s, j + 1)
         ELSE FindAllDigits(s, i + 1)

extract_ids_from_contained(v) ==
    IF ~Truthy(v) THEN <<>> ELSE FindAllDigits(v, 1)

\* the set of ids of a findall result
SeqToSet(q) == {q[k] : k \in DOMAIN q}

\* re.sub(r"\d+", repl, s) scanning from position i, repl as in lines 395-397
RECURSIVE SubDigits(_, _, _)
SubDigits(s, i, deleted) ==
    IF i > Len(s) THEN <<>>
    ELSE IF IsDigit(s[i])
         THEN LET j == RunEnd(s, i)
                  token == SubSeq(s, i, j)
              IN  (IF token \in deleted THEN <<>> ELSE token) \o SubDigits(s, j + 1, deleted)
         ELSE <<s[i]>> \o SubDigits(s, i + 1, deleted)

remove_nothing_from_contained(v, deleted) == v

remove_deleted_ids_from_contained(v, deleted) ==
    IF ~Truthy(v) \/ deleted = {} THEN v ELSE SubDigits(v, 1, deleted)

\* str.lower() on the letters that occur in the model's inputs
UpperLetters == <<"A", "B", "C", "D", "E", "F", "G", "H", "I", "J", "K", "L", "M",
                  "N", "O", "P", "Q", "R", "S", "T", "U", "V", "W", "X", "Y", "Z">>
LowerLetters == <<"a", "b", "c", "d", "e", "f", "g", "h", "i", "j", "k", "l", "m",
                  "n", "o", "p", "q", "r", "s", "t", "u", "v", "w", "x", "y", "z">>

LowerChar(c) ==
    IF \E k \in DOMAIN UpperLetters : UpperLetters[k] = c
    THEN LowerLetters[CHOOSE k \in DOMAIN UpperLetters : UpperLetters[k] = c]
    ELSE c

Lower(s) == [i \in DOMAIN s |-> LowerChar(s[i])]

\* v or ""
OrEmpty(v) == IF Truthy(v) THEN v ELSE <<>>

\* a or b
PyOr(a, b) == IF Truthy(a) THEN a ELSE b

\* the non-empty pieces of re.split(r"[,\s]+", s): maximal runs of non-separators
IsTagSep(c) == c \in {",", " "}

RECURSIVE TokenEnd(_, _)
TokenEnd(s, i) ==
    IF i + 1 <= Len(s) /\ ~IsTagSep(s[i + 1]) THEN TokenEnd(s, i + 1) ELSE i

RECURSIVE SplitTokens(_, _)
SplitTokens(s, i) ==
    IF i > Len(s) THEN {}
    ELSE IF IsTagSep(s[i]) THEN SplitTokens(s, i + 1)
         ELSE LET j == TokenEnd(s, i)
              IN  {SubSeq(s, i, j)} \cup SplitTokens(s, j + 1)

\* dict.get(key, ()) on a map held as a function
Get(m, k) == IF k \in DOMAIN m THEN m[k] ELSE {}

\* the orders in which a Python set may be iterated
Orderings(S) ==
    {q \in [1..Cardinality(S) -> S] : \A a, b \in DOMAIN q : a # b => q[a] # q[b]}

Last(q) == q[Len(q)]
Front(q) == SubSeq(q, 1, Len(q) - 1)

\* ---------------------------------------------------------- upgrade removal
\* An element is [uid, tag, attrib, changes]: attrib is the attribute dict in
\* insertion order, a sequence of [key, val]; changes is non-empty only for an
\* <Upgrade>: its component-change children [tag, stats], stats being the stat
\* leaves [tag, value] (value None when the leaf has no value attribute).
\* An object is [attrib, children].  A target is 0 (the object) or the position
\* of one of its children.

\* position of the first key equal to the name, 0 when there is none
find_attr_case_sensitive(attrib, name_lower) ==
    LET hits == {k \in DOMAIN attrib : attrib[k].key = Lower(name_lower)}
    IN  IF hits = {} THEN 0 ELSE CHOOSE k \in hits : \A h \in hits : k <= h

\* position of the first key whose lower-case form is the name, 0 when there is none
find_attr_case_insensitive(attrib, name_lower) ==
    LET hits == {k \in DOMAIN attrib : Lower(attrib[k].key) = Lower(name_lower)}
    IN  IF hits = {} THEN 0 ELSE CHOOSE k \in hits : \A h \in hits : k <= h

TargetAttrib(obj, t) == IF t = 0 THEN obj.attrib ELSE obj.children[t].attrib

\* lines 161-166 for one target: obj is [attrib, children, changes]
ApplyToTarget(obj, t, stat) ==
    LET attrib == TargetAttrib(obj, t)
        k == find_attr_case_insensitive(attrib, Lower(stat.tag))
        written == [attrib EXCEPT ![k].val = stat.value]
    IN  IF k = 0 THEN obj
        ELSE IF t = 0
             THEN [obj EXCEPT !.attrib = written, !.changes = @ + 1]
             ELSE [obj EXCEPT !.children[t].attrib = written, !.changes = @ + 1]

RECURSIVE ApplyTargets(_, _, _, _)
ApplyTargets(obj, targets, i, stat) ==
    IF i > Len(targets) THEN obj
    ELSE ApplyTargets(ApplyToTarget(obj, targets[i], stat), targets, i + 1, stat)

\* lines 154-166
RECURSIVE ApplyStats(_, _, _, _)
ApplyStats(obj, targets, stats, j) ==
    IF j > Len(stats) THEN obj
    ELSE IF stats[j].value = None THEN ApplyStats(obj, targets, stats, j + 1)
         ELSE ApplyStats(ApplyTargets(obj, targets, 1, stats[j]), targets, stats, j + 1)

THIS == <<"t", "h", "i", "s">>

\* lines 146-149
TargetsOf(obj, comp_tag) ==
    IF Lower(comp_tag) = THIS THEN <<0>>
    ELSE SelectSeq([k \in DOMAIN obj.children |-> k],
                   LAMBDA k : obj.children[k].tag = comp_tag)

\* lines 143-166
RECURSIVE ApplyChanges(_, _, _)
ApplyChanges(obj, changes, c) ==
    IF c > Len(changes) THEN obj
    ELSE LET targets == TargetsOf(obj, changes[c].tag)
         IN  ApplyChanges(ApplyStats(obj, targets, changes[c].stats, 1), changes, c + 1)

\* revert_upgrade: the parent after the call, with the number of changes made
revert_upgrade(parent, uid) ==
    LET pos == CHOOSE k \in DOMAIN parent.children : parent.children[k].uid = uid
        upgrade_elem == parent.children[pos]
        patched == ApplyChanges([attrib |-> parent.attrib, children |-> parent.children,
                                 changes |-> 0],
                                upgrade_elem.changes, 1)
    IN  [attrib |-> patched.attrib,
         children |-> SelectSeq(patched.children, LAMBDA e : e.uid # uid),
         changes |-> patched.changes]

UPGRADE == <<"U", "p", "g", "r", "a", "d", "e">>

\* list(root.iter("Upgrade")), as the uids of the elements found
IterUpgrades(obj) ==
    LET found == SelectSeq(obj.children, LAMBDA e : e.tag = UPGRADE)
    IN  [k \in DOMAIN found |-> found[k].uid]

\* ------------------------------------------------ document (ElementTree)
\* An <Item> element is a record
\*   ID, identifier, Tags, tags : attribute values (None when absent)
\*   comps      : its component sub-elements, each [tag, Attached]
\*   containers : the "contained" value of each <ItemContainer> child (None when absent)
\* A <link> element is [owner, w]: owner is the index of the Item it lies in
\* (0: outside every Item) and w its target attribute.  Items are children of
\* the document root, as in a .sub file, so parent_map gives every Item a parent.

\* ic.get("contained", "")
ContainedOf(c) == IF c = None THEN <<>> ELSE c

\* the ids of all ItemContainer children of one Item (lines 248-252)
ContainedIds(item) ==
    UNION {SeqToSet(extract_ids_from_contained(ContainedOf(item.containers[k]))) :
             k \in DOMAIN item.containers}

\* id_to_item: ID -> index of the Item element; a later Item with the same ID overwrites
IdToItem(its) ==
    LET withId == {i \in DOMAIN its : Truthy(its[i].ID)}
    IN  [id \in {its[i].ID : i \in withId} |->
            CHOOSE i \in withId : its[i].ID = id /\ \A j \in withId : its[j].ID = id => j <= i]

\* container_to_children: only Items with an ID get a key (line 254)
ContainerToChildren(its) ==
    LET owners == {i \in DOMAIN its : Truthy(its[i].ID) /\ ContainedIds(its[i]) # {}}
    IN  [id \in {its[i].ID : i \in owners} |->
            UNION {ContainedIds(its[i]) : i \in {j \in owners : its[j].ID = id}}]

\* the value added to child_to_containers[cid] for one containing Item (line 258)
ContainerKey(item) == {item.ID}

\* child_to_containers: every extracted id gets a key (lines 257-258)
ChildToContainers(its) ==
    LET owners == {i \in DOMAIN its : ContainedIds(its[i]) # {}}
    IN  [cid \in UNION {ContainedIds(its[i]) : i \in owners} |->
            UNION {ContainerKey(its[i]) : i \in {j \in owners : cid \in ContainedIds(its[j])}}]

\* ---------------------------------------------------------- build_safe_ids
\* line 281-282
IsSeedInverted(item, exclude) == Lower(OrEmpty(item.identifier)) \notin exclude

IsSeed(item, exclude) == Lower(OrEmpty(item.identifier)) \in exclude

\* keys of id_to_item in insertion order (first occurrence of each ID)
RECURSIVE KeysInOrder(_, _)
KeysInOrder(its, i) ==
    IF i > Len(its) THEN <<>>
    ELSE LET later == KeysInOrder(its, i + 1)
             id == its[i].ID
         IN  IF ~Truthy(id) THEN later
             ELSE <<id>> \o SelectSeq(later, LAMBDA x : x # id)

\* the seed loop, lines 280-284: the ids appended to the queue, in order
SeedQueue(its, idmap, exclude) ==
    SelectSeq(KeysInOrder(its, 1), LAMBDA id : IsSeed(its[idmap[id]], exclude))

\* "if child_id not in safe_ids" / "if parent_id not in safe_ids"
NotYetSafeNoCheck(ids, safe) == ids

NotYetSafe(ids, safe) == ids \ safe

\* the ids the children loop (lines 291-294) adds for `current`
NewChildren(current, c2c, safe) == NotYetSafe(Get(c2c, current), safe)

\* the ids the parents loop (lines 297-300) adds for `current`
NewParentsNone(current, ch2c, safe) == {}

NewParents(current, ch2c, safe) == NotYetSafe(Get(ch2c, current), safe)

\* build_safe_ids as a function of its arguments: the worklist run to its end
RECURSIVE Drain(_, _, _, _)
Drain(safe, work, c2c, ch2c) ==
    IF work = <<>> THEN safe
    ELSE LET current == Last(work)
             newC == NewChildren(current, c2c, safe)
             newP == NewParents(current, ch2c, safe \cup newC)
             add == newC \cup newP
             order == CHOOSE q \in Orderings(add) : TRUE
         IN  Drain(safe \cup add, Front(work) \o order, c2c, ch2c)

build_safe_ids(its, exclude) ==
    LET seeds == SeedQueue(its, IdToItem(its), exclude)
    IN  Drain(SeqToSet(seeds), seeds, ContainerToChildren(its), ChildToContainers(its))

\* ------------------------------------------------------ pruning utilities
collect_link_w_ids_none(lks, idmap) == {}

collect_link_w_ids(lks, idmap) ==
    {lks[k].w : k \in {j \in DOMAIN lks : Truthy(lks[j].w) /\ lks[j].w \in DOMAIN idmap}}

TARGET_TAGS ==
    { <<"s", "m", "a", "l", "l", "i", "t", "e", "m">>,
      <<"m", "e", "d", "i", "u", "m", "i", "t", "e", "m">>,
      <<"a", "m", "m", "o", "b", "o", "x">>,
      <<"r", "a", "i", "l", "g", "u", "n", "a", "m", "m", "o">>,
      <<"h", "u", "m", "a", "n">>,
      <<"m", "o", "b", "i", "l", "e", "c", "o", "n", "t", "a", "i", "n", "e", "r">>,
      <<"d", "e", "p", "t", "h", "c", "h", "a", "r", "g", "e", "a", "m", "m", "o">>,
      <<"c", "r", "a", "t", "e">> }

BEHAVIOR_COMPONENT_TAGS ==
    {"Holdable", "Throwable", "Growable", "Pickable", "MeleeWeapon", "Wearable"}

has_behavior_component(item) ==
    \E k \in DOMAIN item.comps : item.comps[k].tag \in BEHAVIOR_COMPONENT_TAGS

item_is_deletable_ignoring_safe(item, safe) ==
    LET raw_tags == PyOr(item.Tags, PyOr(item.tags, <<>>))
        tag_tokens == {Lower(t) : t \in SplitTokens(raw_tags, 1)}
    IN  /\ Truthy(item.ID)
        /\ tag_tokens \cap TARGET_TAGS # {}
        /\ ~\E k \in DOMAIN item.comps :
               /\ item.comps[k].tag = "Holdable"
               /\ item.comps[k].Attached # None
               /\ Lower(item.comps[k].Attached) = <<"t", "r", "u", "e">>

item_is_deletable(item, safe) ==
    LET raw_tags == PyOr(item.Tags, PyOr(item.tags, <<>>))
        tag_tokens == {Lower(t) : t \in SplitTokens(raw_tags, 1)}
    IN  /\ Truthy(item.ID)
        /\ item.ID \notin safe
        /\ tag_tokens \cap TARGET_TAGS # {}
        /\ ~\E k \in DOMAIN item.comps :
               /\ item.comps[k].tag = "Holdable"
               /\ item.comps[k].Attached # None
               /\ Lower(item.comps[k].Attached) = <<"t", "r", "u", "e">>

\* lines 429-434: ids of Items without behaviour components that are not yet safe
StaticIds(its, idmap, safe) ==
    {id \in DOMAIN idmap : id \notin safe /\ ~has_behavior_component(its[idmap[id]])}

\* lines 452-457 for one ItemContainer
CleanContainer(c, deleted) ==
    IF ~Truthy(ContainedOf(c)) THEN c
    ELSE remove_deleted_ids_from_contained(ContainedOf(c), deleted)

\* ------------------------------------------------------------------ state
VARIABLES
    value, deleted_arg, cleaned, cpc,      \* one call of remove_deleted_ids_from_contained
    items, links, exclude_identifiers,     \* the document and the EXCLUDE_ITEMS setting
    pc,                                    \* position inside delete_tagged_items
    id_to_item, container_to_children, child_to_containers,
    safe_ids, queue,
    enqueued,                              \* every id ever appended to queue, in order
    deleted_ids,
    removed,                               \* indexes of the Items detached by parent.remove
    tree0, tree,                           \* an object with its Upgrade children: input, current
    upgrades, total_changes, upc,          \* process_upgrades
    sub_files, failure, strip_items, strip_upgrades,   \* main: the batch and the settings
    file_index,                            \* position of the for loop over sub_files
    attempted, written, error_log, bpc

cvars == <<value, deleted_arg, cleaned, cpc>>
dvars == <<items, links, exclude_identifiers, pc, id_to_item, container_to_children,
           child_to_containers, safe_ids, queue, enqueued, deleted_ids, removed>>
uvars == <<tree0, tree, upgrades, total_changes, upc>>
bvars == <<sub_files, failure, strip_items, strip_upgrades, file_index, attempted, written, error_log, bpc>>
vars == <<cvars, dvars, uvars, bvars>>

ContainedIdle ==
    /\ value = <<>> /\ deleted_arg = {} /\ cleaned = None /\ cpc = "idle"

DocIdle ==
    /\ items = <<>> /\ links = <<>> /\ exclude_identifiers = {}
    /\ pc = "idle"
    /\ id_to_item = <<>> /\ container_to_children = <<>> /\ child_to_containers = <<>>
    /\ safe_ids = {} /\ queue = <<>> /\ enqueued = <<>>
    /\ deleted_ids = {} /\ removed = {}

UpgradeIdle ==
    /\ tree0 = <<>> /\ tree = <<>> /\ upgrades = <<>> /\ total_changes = 0 /\ upc = "idle"

BatchIdle ==
    /\ sub_files = <<>> /\ failure = <<>> /\ strip_items = FALSE /\ strip_upgrades = FALSE
    /\ file_index = 1
    /\ attempted = <<>> /\ written = <<>> /\ error_log = <<>> /\ bpc = "idle"

\* ------------------------------------------------------ delete_tagged_items
\* the ID of the Item at each position of a document; ids are unique in a document
IdPool == << <<"1">>, <<"2">>, <<"1", "2">>, <<"2", "1">> >>

Holdable(attached) == [tag |-> "Holdable", Attached |-> attached]
Component(t) == [tag |-> t, Attached |-> None]

\* Items that may hold other Items: a static cabinet, a loose box, an excluded box
StaticKind ==
    [identifier |-> <<"b">>, Tags |-> <<"C", "r", "a", "t", "e">>, tags |-> None,
     comps |-> <<Component("ItemComponent")>>]

LooseKind ==
    [identifier |-> <<"b">>, Tags |-> None, tags |-> <<"s", "m", "a", "l", "l", "i", "t", "e", "m">>,
     comps |-> <<Holdable(None)>>]

ExcludedKind ==
    [identifier |-> <<"F", "o">>, Tags |-> <<"d", ",", " ", "C", "r", "a", "t", "e">>, tags |-> None,
     comps |-> <<Component("Pickable")>>]

\* an Item attached to a wall, and a loose Item without a target tag
AttachedKind ==
    [identifier |-> <<"b">>, Tags |-> <<"c", "r", "a", "t", "e">>, tags |-> None,
     comps |-> <<Holdable(<<"T", "r", "u", "e">>)>>]

UntaggedKind ==
    [identifier |-> None, Tags |-> <<"d">>, tags |-> <<"c", "r", "a", "t", "e">>,
     comps |-> <<Holdable(<<"f", "a", "l", "s", "e">>)>>]

\* the <ItemContainer> children of an Item: none, one, or one without a
\* contained attribute followed by one with
ContainerChoices ==
    { <<>>,
      << <<"2">> >>,
      << <<"1", ",", "2">> >>,
      << <<"1", "2", ";", "9">> >>,
      << None, <<"1">> >> }

\* the <Item> elements that may stand at position i of a document
ItemsOf(i, kinds, containers) ==
    {[ID |-> id, identifier |-> k.identifier, Tags |-> k.Tags, tags |-> k.tags,
      comps |-> k.comps, containers |-> c] :
        id \in {None, IdPool[i]}, k \in kinds, c \in containers}

ItemAt(i) ==
    ItemsOf(i, {StaticKind, LooseKind, ExcludedKind}, ContainerChoices)
      \cup ItemsOf(i, {AttachedKind, UntaggedKind}, {<<>>, << <<"1", ",", "2">> >>})

\* for the containment graph alone only ID, identifier and contents matter
GraphItemAt(i) == ItemsOf(i, {LooseKind, ExcludedKind}, ContainerChoices)

RECURSIVE Documents(_)
Documents(n) ==
    IF n = 0 THEN {<<>>}
    ELSE {Append(d, it) : d \in Documents(n - 1), it \in ItemAt(n)}

RECURSIVE GraphDocuments(_)
GraphDocuments(n) ==
    IF n = 0 THEN {<<>>}
    ELSE {Append(d, it) : d \in GraphDocuments(n - 1), it \in GraphItemAt(n)}

\* no link, or a link to Item "2" inside the first Item, a link without w and
\* a link to an id that no Item has
LinkChoices ==
    { <<>>,
      << [owner |-> 1, w |-> <<"2">>], [owner |-> 0, w |-> None],
         [owner |-> 1, w |-> <<"9">>] >> }

ExcludeChoices == {{<<"f", "o">>}}

StartOfPass ==
    /\ ContainedIdle /\ UpgradeIdle /\ BatchIdle
    /\ exclude_identifiers \in ExcludeChoices
    /\ pc = "build"
    /\ id_to_item = <<>> /\ container_to_children = <<>> /\ child_to_containers = <<>>
    /\ safe_ids = {} /\ queue = <<>> /\ enqueued = <<>>
    /\ deleted_ids = {} /\ removed = {}

Init ==
    /\ items \in Documents(MaxItems)
    /\ links \in LinkChoices
    /\ StartOfPass

\* lines 418-419 up to the seed loop of build_safe_ids (lines 276-284)
BuildGraph ==
    /\ pc = "build"
    /\ id_to_item' = IdToItem(items)
    /\ container_to_children' = ContainerToChildren(items)
    /\ child_to_containers' = ChildToContainers(items)
    /\ LET seeds == SeedQueue(items, IdToItem(items), exclude_identifiers)
       IN  /\ safe_ids' = SeqToSet(seeds)
           /\ queue' = seeds
           /\ enqueued' = seeds
    /\ pc' = "bfs"
    /\ UNCHANGED <<cvars, uvars, bvars, items, links, exclude_identifiers, deleted_ids, removed>>

Occurrences(q, x) == Cardinality({k \in DOMAIN q : q[k] = x})

\* one iteration of the while loop, lines 287-300
BfsStep ==
    /\ pc = "bfs"
    /\ queue # <<>>
    /\ \A k \in DOMAIN enqueued : Occurrences(enqueued, enqueued[k]) <= EnqueueCap
    /\ LET current == Last(queue)
           newC == NewChildren(current, container_to_children, safe_ids)
           newP == NewParents(current, child_to_containers, safe_ids \cup newC)
       IN  \E oc \in Orderings(newC), op \in Orderings(newP \ newC) :
               /\ safe_ids' = safe_ids \cup newC \cup newP
               /\ queue' = Front(queue) \o oc \o op
               /\ enqueued' = enqueued \o oc \o op
    /\ UNCHANGED <<cvars, uvars, bvars, items, links, exclude_identifiers, pc, id_to_item,
                   container_to_children, child_to_containers, deleted_ids, removed>>

\* lines 423-460: link targets, static items, the pruning pass, the contained rewrite
PruneAndNormalize ==
    /\ pc = "bfs"
    /\ queue = <<>>
    /\ LET withLinks == safe_ids \cup collect_link_w_ids(links, id_to_item)
           safe == withLinks \cup StaticIds(items, id_to_item, withLinks)
           gone == {i \in DOMAIN items :
                      Truthy(items[i].ID) /\ item_is_deletable(items[i], safe)}
           deleted == {items[i].ID : i \in gone}
       IN  /\ safe_ids' = safe
           /\ removed' = gone
           /\ deleted_ids' = deleted
           /\ items' = IF deleted = {} THEN items
                       ELSE [i \in DOMAIN items |->
                               IF i \in gone THEN items[i]
                               ELSE [items[i] EXCEPT !.containers =
                                       [k \in DOMAIN items[i].containers |->
                                          CleanContainer(items[i].containers[k], deleted)]]]
    /\ pc' = "done"
    /\ UNCHANGED <<cvars, uvars, bvars, links, exclude_identifiers, id_to_item, container_to_children,
                   child_to_containers, queue, enqueued>>

Next == BuildGraph \/ BfsStep \/ PruneAndNormalize

Spec == Init /\ [][Next]_vars

\* build_safe_ids alone, under the scheduling of a sequential program
SafeReturn ==
    /\ pc = "bfs"
    /\ queue = <<>>
    /\ pc' = "returned"
    /\ UNCHANGED <<cvars, uvars, bvars, items, links, exclude_identifiers, id_to_item,
                   container_to_children, child_to_containers, safe_ids, queue,
                   enqueued, deleted_ids, removed>>

SafeNext == BuildGraph \/ BfsStep \/ SafeReturn

SafeInit ==
    /\ items \in GraphDocuments(MaxItems)
    /\ links = <<>>
    /\ StartOfPass

SafeSpec == SafeInit /\ [][SafeNext]_vars /\ WF_vars(SafeNext)

\* ---------------------------------------------------------- process_upgrades
Attr(k, v) == [key |-> k, val |-> v]
Stat(t, v) == [tag |-> t, value |-> v]

ObjectAttribChoices ==
    { << Attr(<<"S", "p">>, <<"9">>) >>,
      << Attr(<<"h">>, <<"9">>), Attr(<<"s", "p">>, <<"9">>) >>,
      << Attr(<<"S", "p">>, <<"9">>), Attr(<<"s", "p">>, <<"8">>) >>,
      << Attr(<<"h">>, <<"9">>) >> }

Engine(uid, attrib) == [uid |-> uid, tag |-> <<"E", "n">>, attrib |-> attrib, changes |-> <<>>]

ComponentChoices ==
    { <<>>,
      << Engine(1, << Attr(<<"S", "p">>, <<"9">>) >>) >>,
      << Engine(1, << Attr(<<"s", "P">>, <<"9">>) >>), Engine(2, << Attr(<<"s", "p">>, <<"9">>) >>) >>,
      << Engine(1, << Attr(<<"h">>, <<"9">>) >>) >> }

ChangeTagChoices ==
    { <<"t", "h", "i", "s">>, <<"T", "h", "i", "s">>, <<"E", "n">>, <<"e", "n">>, <<"q">> }

StatChoices ==
    { Stat(<<"s", "p">>, <<"0">>), Stat(<<"S", "P">>, <<"1">>),
      Stat(<<"x">>, <<"0">>), Stat(<<"s", "p">>, None) }

\* an <Upgrade> with one component-change child holding one stat leaf
UpgradeChoices ==
    {[tag |-> UPGRADE, attrib |-> <<>>, changes |-> << [tag |-> ct, stats |-> <<st>>] >>] :
        ct \in ChangeTagChoices, st \in StatChoices}

RECURSIVE UpgradeLists(_)
UpgradeLists(n) ==
    IF n = 0 THEN {<<>>}
    ELSE LET shorter == UpgradeLists(n - 1)
         IN  shorter \cup {Append(q, u) : q \in {x \in shorter : Len(x) = n - 1}, u \in UpgradeChoices}

\* the Upgrade children follow the components; uids number the children
WithUids(comps, ups) ==
    comps \o [k \in DOMAIN ups |->
                [uid |-> Len(comps) + k, tag |-> ups[k].tag, attrib |-> ups[k].attrib,
                 changes |-> ups[k].changes]]

UpgradeInit ==
    /\ ContainedIdle /\ DocIdle /\ BatchIdle
    /\ \E a \in ObjectAttribChoices, c \in ComponentChoices, u \in UpgradeLists(MaxUpgrades) :
           tree0 = [attrib |-> a, children |-> WithUids(c, u)]
    /\ tree = tree0
    /\ upgrades = <<>>
    /\ total_changes = 0
    /\ upc = "start"

\* lines 178-182
CollectUpgrades ==
    /\ upc = "start"
    /\ upgrades' = IterUpgrades(tree)
    /\ total_changes' = 0
    /\ upc' = "loop"
    /\ UNCHANGED <<cvars, dvars, bvars, tree0, tree>>

\* one iteration of the loop at lines 184-188; the parent of an Upgrade child is the object
RevertNext ==
    /\ upc = "loop"
    /\ upgrades # <<>>
    /\ LET after == revert_upgrade(tree, Head(upgrades))
       IN  /\ tree' = [attrib |-> after.attrib, children |-> after.children]
           /\ total_changes' = total_changes + after.changes
    /\ upgrades' = Tail(upgrades)
    /\ UNCHANGED <<cvars, dvars, bvars, tree0, upc>>

\* line 190
ReturnChanges ==
    /\ upc = "loop"
    /\ upgrades = <<>>
    /\ upc' = "done"
    /\ UNCHANGED <<cvars, dvars, bvars, tree0, tree, upgrades, total_changes>>

UpgradeNext == CollectUpgrades \/ RevertNext \/ ReturnChanges

UpgradeSpec == UpgradeInit /\ [][UpgradeNext]_vars

\* --------------------------------------------------------------------- main
\* failure[f] names the step of process_sub_file at which file f raises an
\* exception ("none": it raises nowhere); a step that the settings skip cannot raise.
FailureStages == {"none", "read", "upgrades", "items", "write"}

Raises(f) ==
    \/ failure[f] \in {"read", "write"}
    \/ failure[f] = "upgrades" /\ strip_upgrades
    \/ failure[f] = "items" /\ strip_items

\* sorted(INPUT_DIR.glob("*.sub")), file names being numbers
RECURSIVE Sorted(_)
Sorted(S) ==
    IF S = {} THEN <<>>
    ELSE LET least == CHOOSE x \in S : \A y \in S : x <= y
         IN  <<least>> \o Sorted(S \ {least})

BatchInit ==
    /\ ContainedIdle /\ DocIdle /\ UpgradeIdle
    /\ \E found \in SUBSET (1..MaxFiles) :
          /\ sub_files = Sorted(found)
          /\ failure \in [found -> FailureStages]
    /\ strip_items \in BOOLEAN
    /\ strip_upgrades \in BOOLEAN
    /\ file_index = 1
    /\ attempted = <<>>
    /\ written = <<>>
    /\ error_log = <<>>
    /\ bpc = "loop"

\* lines 516-520
NoSubFiles ==
    /\ bpc = "loop"
    /\ sub_files = <<>>
    /\ bpc' = "exit"
    /\ UNCHANGED <<cvars, dvars, uvars, sub_files, failure, strip_items, strip_upgrades,
                   file_index, attempted, written, error_log>>

\* where the for loop goes on after the except clause at lines 527-528
AbortAfterException(index, n) == n + 1

AfterException(index, n) == index + 1

\* lines 525-526, process_sub_file returning normally
ProcessSucceeds ==
    /\ bpc = "loop"
    /\ file_index <= Len(sub_files)
    /\ ~Raises(sub_files[file_index])
    /\ attempted' = Append(attempted, sub_files[file_index])
    /\ written' = Append(written, sub_files[file_index])
    /\ file_index' = file_index + 1
    /\ UNCHANGED <<cvars, dvars, uvars, sub_files, failure, strip_items, strip_upgrades,
                   error_log, bpc>>

\* lines 525-528, process_sub_file raising: nothing is written for this file
ProcessRaises ==
    /\ bpc = "loop"
    /\ file_index <= Len(sub_files)
    /\ Raises(sub_files[file_index])
    /\ attempted' = Append(attempted, sub_files[file_index])
    /\ error_log' = Append(error_log, sub_files[file_index])
    /\ file_index' = AfterException(file_index, Len(sub_files))
    /\ UNCHANGED <<cvars, dvars, uvars, sub_files, failure, strip_items, strip_upgrades,
                   written, bpc>>

\* line 530
AllDone ==
    /\ bpc = "loop"
    /\ sub_files # <<>>
    /\ file_index > Len(sub_files)
    /\ bpc' = "all_done"
    /\ UNCHANGED <<cvars, dvars, uvars, sub_files, failure, strip_items, strip_upgrades,
                   file_index, attempted, written, error_log>>

BatchNext == NoSubFiles \/ ProcessSucceeds \/ ProcessRaises \/ AllDone

BatchSpec == BatchInit /\ [][BatchNext]_vars /\ WF_vars(BatchNext)

\* -------------------------------------------------------------- properties
InTree(i) == i \notin removed

LinkInTree(k) == links[k].owner = 0 \/ links[k].owner \notin removed

\* the ids extracted from the contained strings of the ItemContainers still in the tree
RemainingContainedIds ==
    UNION {ContainedIds(items[i]) : i \in {j \in DOMAIN items : InTree(j)}}

IsRemainingItemId(id) == \E j \in DOMAIN items : InTree(j) /\ items[j].ID = id

\* y directly contains x, read off the document
Contains(y, x) ==
    Truthy(y) /\ \E i \in DOMAIN items : items[i].ID = y /\ x \in ContainedIds(items[i])

\* the same relation of the input document, once the pass has rewritten the strings
ContainedIn(y, x) == x \in Get(container_to_children, y)

DocumentIds == {items[i].ID : i \in {j \in DOMAIN items : Truthy(items[j].ID)}}

\* the ids of Items and the ids named in contained strings
MentionedIds == DocumentIds \cup UNION {ContainedIds(items[i]) : i \in DOMAIN items}

ExcludedIds(exclude) ==
    {items[i].ID : i \in {j \in DOMAIN items :
        Truthy(items[j].ID) /\ Lower(OrEmpty(items[j].identifier)) \in exclude}}

SafeIdsReturned == pc = "bfs" /\ queue = <<>>

\* the closure of an arbitrary seed set over the maps of the document
ClosureOf(seed_ids) ==
    Drain(seed_ids, CHOOSE q \in Orderings(seed_ids) : TRUE,
          container_to_children, child_to_containers)

\* ---- C1 ---------------------------------------------------------------
\* C1 as stated: after delete_tagged_items returns, every id extracted from a
\* contained string still in the tree is the ID of an Item still in the tree.
C1_Original ==
    pc = "done" => \A id \in RemainingContainedIds : IsRemainingItemId(id)

\* C1 as amended: after delete_tagged_items returns, no id extracted from a
\* contained string still in the tree is in the deleted-id set, and every such
\* id that named an Item of the input document names an Item still in the tree.
C1_NoDeletedIdReferenced ==
    pc = "done" =>
        \A id \in RemainingContainedIds :
            /\ id \notin deleted_ids
            /\ (id \in DOMAIN id_to_item => IsRemainingItemId(id))

C1_Witness ==
    /\ pc = "done"
    /\ <<"2">> \in deleted_ids
    /\ \E i \in DOMAIN items :
          InTree(i) /\ items[i].containers = << <<"1", ",">> >>

C3_SafeNeverDeleted ==
    pc = "done" =>
        \A i \in DOMAIN items :
            Truthy(items[i].ID) /\ items[i].ID \in safe_ids =>
                InTree(i) /\ items[i].ID \notin deleted_ids

\* a safe Item that has a target tag and is not attached, next to a deleted one
C3_Witness ==
    /\ pc = "done"
    /\ deleted_ids # {}
    /\ \E i \in DOMAIN items :
          /\ items[i].ID \in safe_ids
          /\ item_is_deletable(items[i], {})
          /\ InTree(i)

\* ---- C6 ---------------------------------------------------------------
\* C6 as stated: the safe set used for pruning is closed under direct containment
\* in both directions.
C6_Original ==
    pc = "done" =>
        \A x \in safe_ids, y \in DocumentIds :
            ContainedIn(y, x) \/ ContainedIn(x, y) => y \in safe_ids

\* C6 as amended: the set returned by build_safe_ids (the closure of the
\* excluded identifiers, before link targets and behaviour-less Items are
\* added) is closed under direct containment in both directions.
C6_ClosureOfExcluded ==
    SafeIdsReturned =>
        \A x \in safe_ids, y \in MentionedIds :
            Contains(y, x) \/ Contains(x, y) => y \in safe_ids

\* the container of a seeded Item became safe although it is no seed itself
C6_Witness ==
    /\ SafeIdsReturned
    /\ \E x, y \in safe_ids :
          /\ x # y
          /\ x \in ExcludedIds(exclude_identifiers)
          /\ y \in DocumentIds \ ExcludedIds(exclude_identifiers)
          /\ Contains(y, x)
          /\ ~Contains(x, y)

\* ---- C7 ---------------------------------------------------------------
NoIdEnqueuedTwice ==
    \A a, b \in DOMAIN enqueued : a # b => enqueued[a] # enqueued[b]

CycleBothSafe ==
    \A a, b \in DocumentIds :
        /\ Contains(a, b) /\ Contains(b, a)
        /\ (a \in ExcludedIds(exclude_identifiers) \/ b \in ExcludedIds(exclude_identifiers))
        => a \in safe_ids /\ b \in safe_ids

\* C7: build_safe_ids terminates on every containment graph, no id is appended
\* to the worklist twice, and when A contains B, B contains A and one of them
\* is seeded, both are in the result.
C7_TerminatesOnCycles ==
    /\ []NoIdEnqueuedTwice
    /\ <>(pc = "returned")
    /\ [](pc = "returned" => CycleBothSafe)

C7_Witness ==
    /\ pc = "returned"
    /\ \E a, b \in safe_ids :
          /\ a # b
          /\ Contains(a, b) /\ Contains(b, a)
          /\ a \in ExcludedIds(exclude_identifiers)
          /\ b \notin ExcludedIds(exclude_identifiers)

\* ---- C8 ---------------------------------------------------------------
ExcludeUniverse == {<<"f", "o">>, <<"b">>}

\* C8: the result of build_safe_ids contains the ID of every Item whose
\* lower-cased identifier is excluded, and a larger seed set (or exclusion
\* set) never gives a smaller result.
C8_SupersetAndMonotone ==
    SafeIdsReturned =>
        /\ ExcludedIds(exclude_identifiers) \subseteq safe_ids
        /\ LET closure == [s \in SUBSET DocumentIds |-> ClosureOf(s)]
           IN  \A s2 \in SUBSET DocumentIds : \A s1 \in SUBSET s2 :
                  closure[s1] \subseteq closure[s2]
        /\ LET result == [e \in SUBSET ExcludeUniverse |-> build_safe_ids(items, e)]
           IN  /\ \A e2 \in SUBSET ExcludeUniverse : \A e1 \in SUBSET e2 :
                     result[e1] \subseteq result[e2]
               /\ \A e1 \in SUBSET exclude_identifiers : result[e1] \subseteq safe_ids

C8_Witness ==
    /\ SafeIdsReturned
    /\ ExcludedIds(exclude_identifiers) # {}
    /\ ExcludedIds(exclude_identifiers) # safe_ids
    /\ build_safe_ids(items, {}) # safe_ids
    /\ build_safe_ids(items, ExcludeUniverse) # safe_ids

\* ---- C4 ---------------------------------------------------------------
\* the stat leaves of the input in document order, each with its component-change tag
RECURSIVE StatsOfChanges(_, _)
StatsOfChanges(changes, c) ==
    IF c > Len(changes) THEN <<>>
    ELSE [j \in DOMAIN changes[c].stats |->
            [ctag |-> changes[c].tag, stag |-> changes[c].stats[j].tag,
             value |-> changes[c].stats[j].value]]
         \o StatsOfChanges(changes, c + 1)

RECURSIVE RecordedStats(_, _)
RecordedStats(children, k) ==
    IF k > Len(children) THEN <<>>
    ELSE (IF children[k].tag = UPGRADE THEN StatsOfChanges(children[k].changes, 1) ELSE <<>>)
         \o RecordedStats(children, k + 1)

\* the targets of the input are the object (uid 0) and its non-Upgrade children
TargetUids == {0} \cup {tree0.children[k].uid :
                          k \in {j \in DOMAIN tree0.children : tree0.children[j].tag # UPGRADE}}

InputElem(uid) == CHOOSE e \in SeqToSet(tree0.children) : e.uid = uid

InputAttrib(uid) == IF uid = 0 THEN tree0.attrib ELSE InputElem(uid).attrib

FinalAttrib(uid) ==
    IF uid = 0 THEN tree.attrib
    ELSE (CHOOSE e \in SeqToSet(tree.children) : e.uid = uid).attrib

SameName(a, b) == Lower(a) = Lower(b)

\* the component-change tag addresses the target: exactly, or in any letter case
AddressesExactly(ctag, uid) ==
    IF uid = 0 THEN Lower(ctag) = THIS ELSE Lower(ctag) # THIS /\ InputElem(uid).tag = ctag

AddressesAnyCase(ctag, uid) ==
    IF uid = 0 THEN Lower(ctag) = THIS ELSE Lower(ctag) # THIS /\ SameName(InputElem(uid).tag, ctag)

\* the first attribute of a target that has the stat's name, letter case ignored
IsFirstNamed(attrib, p, stag) ==
    /\ SameName(attrib[p].key, stag)
    /\ \A q \in 1..(p - 1) : ~SameName(attrib[q].key, stag)

NoUpgradeLeft == \A k \in DOMAIN tree.children : tree.children[k].tag # UPGRADE

\* C4 as stated: after process_upgrades the Upgrade nodes are gone and, where a
\* target has one attribute named by one recorded stat leaf with a value, under
\* a component-change tag that is the self-marker or the tag of the
\* sub-component in any letter case, the attribute holds the recorded value.
C4_Original ==
    upc = "done" =>
        /\ NoUpgradeLeft
        /\ LET stats == RecordedStats(tree0.children, 1)
           IN  \A uid \in TargetUids : \A p \in DOMAIN InputAttrib(uid) :
                 \A n \in DOMAIN stats :
                   /\ stats[n].value # None
                   /\ AddressesAnyCase(stats[n].ctag, uid)
                   /\ SameName(InputAttrib(uid)[p].key, stats[n].stag)
                   /\ \A q \in DOMAIN InputAttrib(uid) :
                         q # p => ~SameName(InputAttrib(uid)[q].key, stats[n].stag)
                   /\ \A m \in DOMAIN stats :
                         m # n /\ AddressesAnyCase(stats[m].ctag, uid)
                           => ~SameName(stats[m].stag, stats[n].stag)
                   => FinalAttrib(uid)[p].val = stats[n].value

\* C4 as amended: after process_upgrades no Upgrade child is left, and every
\* attribute of the object and of its sub-components holds the value of the
\* last stat leaf (in document order) that has a value, names it (it is the
\* first attribute of that name, letter case ignored) and lies under a
\* component-change tag that is the self-marker in any letter case or exactly
\* the sub-component's tag; an attribute no such leaf names is unchanged, and
\* the count returned is the number of such writes.
C4_RevertsExactComponentTag ==
    upc = "done" =>
        /\ NoUpgradeLeft
        /\ Len(tree.children) = Cardinality(TargetUids) - 1
        /\ LET stats == RecordedStats(tree0.children, 1)
               Writers(uid, p) ==
                   {n \in DOMAIN stats :
                       /\ stats[n].value # None
                       /\ AddressesExactly(stats[n].ctag, uid)
                       /\ IsFirstNamed(InputAttrib(uid), p, stats[n].stag)}
           IN  /\ \A uid \in TargetUids :
                     /\ Len(FinalAttrib(uid)) = Len(InputAttrib(uid))
                     /\ \A p \in DOMAIN InputAttrib(uid) :
                           /\ FinalAttrib(uid)[p].key = InputAttrib(uid)[p].key
                           /\ FinalAttrib(uid)[p].val =
                                 IF Writers(uid, p) = {} THEN InputAttrib(uid)[p].val
                                 ELSE stats[CHOOSE n \in Writers(uid, p) :
                                              \A m \in Writers(uid, p) : m <= n].value
               /\ total_changes =
                     Cardinality(UNION {UNION {{<<uid, p, n>> : n \in Writers(uid, p)} :
                                                 p \in DOMAIN InputAttrib(uid)} :
                                          uid \in TargetUids})

\* a self-marker in another letter case and a stat tag in another letter case
\* than the attribute: Sp="9" became Sp="1"
C4_Witness ==
    /\ upc = "done"
    /\ tree0.attrib = << Attr(<<"S", "p">>, <<"9">>) >>
    /\ tree.attrib = << Attr(<<"S", "p">>, <<"1">>) >>
    /\ \E k \in DOMAIN tree0.children :
          /\ tree0.children[k].tag = UPGRADE
          /\ tree0.children[k].changes[1].tag = <<"T", "h", "i", "s">>
    /\ NoUpgradeLeft
    /\ total_changes = 1

\* ---- C9 ---------------------------------------------------------------
RECURSIVE IsPrefix(_, _)
IsPrefix(a, b) == Len(a) <= Len(b) /\ a = SubSeq(b, 1, Len(a))

\* C9: whatever files raise, the loop attempts every file in sorted order,
\* writes the output of exactly the files that raise nowhere, and reaches the
\* completion report.
C9_BatchNeverAborts ==
    /\ [](IsPrefix(attempted, sub_files))
    /\ [](bpc = "all_done" =>
            /\ attempted = sub_files
            /\ written = SelectSeq(sub_files, LAMBDA f : ~Raises(f))
            /\ error_log = SelectSeq(sub_files, LAMBDA f : Raises(f)))
    /\ (sub_files # <<>>) ~> (bpc = "all_done")

\* a file that raises is followed by one that is written
C9_Witness ==
    /\ bpc = "all_done"
    /\ Len(sub_files) >= 2
    /\ Raises(sub_files[1])
    /\ ~Raises(sub_files[2])
    /\ sub_files[2] \in SeqToSet(written)

\* ---- C10 --------------------------------------------------------------
\* C10: an Item without ID is left out of id_to_item, an ItemContainer of an
\* Item without ID adds nothing to container_to_children or child_to_containers,
\* and every key of the two maps and every element of the sets in
\* child_to_containers is an id string.
C10_Original ==
    pc # "build" =>
        /\ \A id \in DOMAIN id_to_item : Truthy(id)
        /\ \A id \in DOMAIN container_to_children : Truthy(id)
        /\ \A cid \in DOMAIN child_to_containers :
              /\ Truthy(cid)
              /\ \A owner \in child_to_containers[cid] : Truthy(owner)
        /\ \A cid \in DOMAIN child_to_containers :
              \E i \in DOMAIN items : Truthy(items[i].ID) /\ cid \in ContainedIds(items[i])

\* ------------------------------------- remove_deleted_ids_from_contained
ContainedAlphabet == {"7", "8", "9", ",", ";"}

RECURSIVE StringsUpTo(_, _)
StringsUpTo(alphabet, n) ==
    IF n = 0 THEN {<<>>}
    ELSE LET shorter == StringsUpTo(alphabet, n - 1)
         IN  shorter \cup {Append(s, c) : s \in shorter, c \in alphabet}

DeletedChoices == SUBSET {<<"8">>, <<"9">>, <<"7", "8">>}

ContainedInit ==
    /\ DocIdle /\ UpgradeIdle /\ BatchIdle
    /\ value \in StringsUpTo(ContainedAlphabet, MaxLen)
    /\ deleted_arg \in DeletedChoices
    /\ cleaned = None
    /\ cpc = "call"

CallRemoveDeleted ==
    /\ cpc = "call"
    /\ cleaned' = remove_deleted_ids_from_contained(value, deleted_arg)
    /\ cpc' = "returned"
    /\ UNCHANGED <<value, deleted_arg, dvars, uvars, bvars>>

ContainedNext == CallRemoveDeleted

ContainedSpec == ContainedInit /\ [][ContainedNext]_vars

\* ---- C5 ---------------------------------------------------------------
\* the maximal digit run of s that covers position i, found by its two ends
RunAround(s, i) ==
    LET lo == CHOOSE a \in 1..i :
                 /\ \A k \in a..i : IsDigit(s[k])
                 /\ (a = 1 \/ ~IsDigit(s[a - 1]))
        hi == CHOOSE b \in i..Len(s) :
                 /\ \A k \in i..b : IsDigit(s[k])
                 /\ (b = Len(s) \/ ~IsDigit(s[b + 1]))
    IN  SubSeq(s, lo, hi)

\* s with exactly the characters of the digit runs that are members of d left out
WithoutDeletedRuns(s, d) ==
    LET idx == SelectSeq([i \in 1..Len(s) |-> i],
                         LAMBDA i : ~IsDigit(s[i]) \/ RunAround(s, i) \notin d)
    IN  [k \in 1..Len(idx) |-> s[idx[k]]]

Separators(s) == SelectSeq(s, LAMBDA c : ~IsDigit(c))

\* C5: remove_deleted_ids_from_contained(s, D) is s with each maximal digit
\* run dropped exactly when the run is a member of D and kept otherwise; the
\* separator characters of the result are those of s, in order; and
\* "7,8,9" with D = {"8"} gives "7,,9".
C5_SeparatorPreserving ==
    cpc = "returned" =>
        /\ cleaned = WithoutDeletedRuns(value, deleted_arg)
        /\ Separators(cleaned) = Separators(value)
        /\ (value = <<"7", ",", "8", ",", "9">> /\ deleted_arg = {<<"8">>}
              => cleaned = <<"7", ",", ",", "9">>)

C5_Witness ==
    /\ cpc = "returned"
    /\ value = <<"7", "8", ",", "8", ";">>
    /\ deleted_arg = {<<"8">>}
    /\ cleaned = <<"7", "8", ",", ";">>

====
